---- MODULE Spec2Model ----
(***************************************************************************)
(* Model of t5/data/vocabularies.py: the abstract Vocabulary (encode,      *)
(* decode, encode_tf, decode_tf) and the concrete ByteVocabulary.          *)
(*                                                                         *)
(* A Python str is a sequence of code points, a tf.string scalar and a     *)
(* bytes object are sequences of byte values 0..255, an id list and an     *)
(* int32 tensor are sequences of integers.  A call that can raise returns  *)
(* a record [err, val]: err = "" when it returned val normally, otherwise  *)
(* the name of the exception and val = <<>>.                               *)
(***************************************************************************)
EXTENDS Integers, Sequences, FiniteSets, TLC

(* ------------------------------ bounds -------------------------------- *)

\* Longest Python str (in code points) given to encode / encode_tf.
MaxStrLen == 2
\* Longest id sequence given to decode / decode_tf.
MaxIdLen == 3
\* Longest raw tf.string (in bytes) given to encode_tf.
MaxBytesLen == 2
\* Largest extra_ids a vocabulary is constructed with.
MaxExtraIds == 1

(* ----------------------- module-level constants ----------------------- *)

PAD_ID == 0
EOS_ID == 1
UNK_ID == 2

\* ByteVocabulary.__init__: self._byte_size, self._num_special_tokens.
ByteSize == 256
NumSpecialTokens == 3

(* ------------------------------ helpers ------------------------------- *)

Ok(v) == [err |-> "", val |-> v]
Raise(e) == [err |-> e, val |-> <<>>]

\* The sequences over S of length at most n.
SeqsUpTo(S, n) == UNION {[1..m -> S] : m \in 0..n}

RECURSIVE Concat(_)
\* The concatenation of a sequence of sequences.
Concat(ss) == IF ss = <<>> THEN <<>> ELSE Head(ss) \o Concat(Tail(ss))

\* Python's seq[:n] for 0 <= n.
Take(s, n) == SubSeq(s, 1, IF n < Len(s) THEN n ELSE Len(s))

(* ------------------- the UTF-8 codec of Python (str) ------------------ *)

IsSurrogate(c) == 55296 <= c /\ c <= 57343

\* The UTF-8 bytes of one code point (a Unicode scalar value).
Utf8EncodeChar(c) ==
    IF c < 128 THEN <<c>>
    ELSE IF c < 2048 THEN <<192 + (c \div 64), 128 + (c % 64)>>
    ELSE IF c < 65536 THEN
        <<224 + (c \div 4096), 128 + ((c \div 64) % 64), 128 + (c % 64)>>
    ELSE <<240 + (c \div 262144), 128 + ((c \div 4096) % 64),
           128 + ((c \div 64) % 64), 128 + (c % 64)>>

\* str.encode("utf-8"): strict, a lone surrogate raises UnicodeEncodeError.
Utf8Encode(s) ==
    IF \E j \in 1..Len(s) : IsSurrogate(s[j]) THEN Raise("UnicodeEncodeError")
    ELSE Ok(Concat([j \in 1..Len(s) |-> Utf8EncodeChar(s[j])]))

IsCont(x) == 128 <= x /\ x <= 191

RECURSIVE Utf8DecodeIgnore(_)
\* bytes.decode("utf-8", errors="ignore"): well-formed sequences become
\* code points; an invalid start byte is dropped alone, an ill-formed
\* sequence is dropped up to (not including) the first byte that cannot
\* continue it, and a sequence cut by the end of the data is dropped.
Utf8DecodeIgnore(b) ==
    IF b = <<>> THEN <<>>
    ELSE
      LET n == Len(b)
          c == b[1]
          Rest(k) == Utf8DecodeIgnore(SubSeq(b, k + 1, n))
      IN
        IF c < 128 THEN <<c>> \o Rest(1)
        ELSE IF c < 194 \/ c > 244 THEN Rest(1)
        ELSE IF c < 224 THEN
            IF n < 2 \/ ~IsCont(b[2]) THEN Rest(1)
            ELSE <<(c - 192) * 64 + (b[2] - 128)>> \o Rest(2)
        ELSE IF c < 240 THEN
            LET lo == IF c = 224 THEN 160 ELSE 128
                hi == IF c = 237 THEN 159 ELSE 191
            IN
              IF n < 2 \/ ~(lo <= b[2] /\ b[2] <= hi) THEN Rest(1)
              ELSE IF n < 3 \/ ~IsCont(b[3]) THEN Rest(2)
              ELSE <<(c - 224) * 4096 + (b[2] - 128) * 64 + (b[3] - 128)>>
                   \o Rest(3)
        ELSE
            LET lo == IF c = 240 THEN 144 ELSE 128
                hi == IF c = 244 THEN 143 ELSE 191
            IN
              IF n < 2 \/ ~(lo <= b[2] /\ b[2] <= hi) THEN Rest(1)
              ELSE IF n < 3 \/ ~IsCont(b[3]) THEN Rest(2)
              ELSE IF n < 4 \/ ~IsCont(b[4]) THEN Rest(3)
              ELSE <<(c - 240) * 262144 + (b[2] - 128) * 4096
                     + (b[3] - 128) * 64 + (b[4] - 128)>> \o Rest(4)

(* ----------------------------- Vocabulary ----------------------------- *)

\* Vocabulary.__init__ (through ByteVocabulary.__init__ for the byte sizes).
NewVocabulary(k, useEos, useUnk) ==
    [extra_ids |-> k, use_eos |-> useEos, use_unk |-> useUnk,
     byte_size |-> ByteSize, num_special_tokens |-> NumSpecialTokens]

\* ByteVocabulary.__init__.
NewByteVocabulary(k) == NewVocabulary(k, TRUE, TRUE)

\* An Optional[int] is <<>> (None) or <<i>>.
eos_id(v) == IF v.use_eos THEN <<EOS_ID>> ELSE <<>>
pad_id(v) == PAD_ID
unk_id(v) == IF v.use_unk THEN <<UNK_ID>> ELSE <<>>
extra_ids(v) == v.extra_ids
_base_vocab_size(v) == v.num_special_tokens + v.byte_size
\* A faulty variant of vocab_size: the extra ids are not counted.
vocab_size_base_only(v) == _base_vocab_size(v)

\* Vocabulary.vocab_size.
vocab_size(v) == _base_vocab_size(v) + extra_ids(v)

(* --------------------------- ByteVocabulary --------------------------- *)

\* ByteVocabulary._convert_strings_to_ids: list(s.encode("utf-8")).
_convert_strings_to_ids(v, s) == Utf8Encode(s)

\* ByteVocabulary._convert_ids_to_strings: bytes(ids) raises ValueError
\* unless every element is in range(256); then the lossy UTF-8 decode.
_convert_ids_to_strings(v, ids) ==
    IF \E j \in 1..Len(ids) : ids[j] < 0 \/ ids[j] > 255
    THEN Raise("ValueError")
    ELSE Ok(Utf8DecodeIgnore(ids))

\* A faulty variant of _filter_non_string_ids: only the upper bound is tested.
_filter_upper_bound_only(v, ids) ==
    LET upper_bound == v.byte_size + v.num_special_tokens
        Keep(id) == id < upper_bound
    IN SelectSeq(ids, Keep)

\* ByteVocabulary._filter_non_string_ids.
_filter_non_string_ids(v, ids) ==
    LET lower_bound == v.num_special_tokens
        upper_bound == v.byte_size + v.num_special_tokens
        Keep(id) == lower_bound <= id /\ id < upper_bound
    IN SelectSeq(ids, Keep)

\* A faulty variant of _encode: the ids are not shifted past the special
\* tokens.
_encode_unshifted(v, s) == _convert_strings_to_ids(v, s)

\* ByteVocabulary._encode.
_encode(v, s) ==
    LET ids == _convert_strings_to_ids(v, s)
    IN IF ids.err # "" THEN ids
       ELSE Ok([j \in 1..Len(ids.val) |-> ids.val[j] + v.num_special_tokens])

\* ByteVocabulary._decode up to the call of _convert_ids_to_strings: the
\* byte values handed to the UTF-8 conversion.
_decode_bytes(v, ids) ==
    LET kept == _filter_non_string_ids(v, ids)
    IN [j \in 1..Len(kept) |-> kept[j] - v.num_special_tokens]

\* ByteVocabulary._decode.
_decode(v, ids) == _convert_ids_to_strings(v, _decode_bytes(v, ids))

(* --------------------- Vocabulary.encode / decode --------------------- *)

\* Vocabulary.encode.
encode(v, s) == _encode(v, s)

\* A faulty variant of decode_unk: base_vocab_size itself is not replaced.
decode_unk_above(v, ids) ==
    IF unk_id(v) # <<>>
    THEN [j \in 1..Len(ids) |->
             IF ids[j] > _base_vocab_size(v) THEN unk_id(v)[1] ELSE ids[j]]
    ELSE ids

\* Vocabulary.decode, first step: ids at or above the base vocabulary
\* size become unk_id when unk_id is not None.
decode_unk(v, ids) ==
    IF unk_id(v) # <<>>
    THEN [j \in 1..Len(ids) |->
             IF ids[j] >= _base_vocab_size(v) THEN unk_id(v)[1] ELSE ids[j]]
    ELSE ids

RECURSIVE list_index(_, _)
\* list.index(x) for x in the list: the 0-based index of the first x.
list_index(s, x) == IF Head(s) = x THEN 0 ELSE 1 + list_index(Tail(s), x)

\* A faulty variant of decode_eos: the terminator is kept.
decode_eos_inclusive(v, clean_ids) ==
    IF eos_id(v) # <<>> /\ \E j \in 1..Len(clean_ids) : clean_ids[j] = eos_id(v)[1]
    THEN Take(clean_ids, list_index(clean_ids, eos_id(v)[1]) + 1)
    ELSE clean_ids

\* Vocabulary.decode, second step: cut before the first eos_id.
decode_eos(v, clean_ids) ==
    IF eos_id(v) # <<>> /\ \E j \in 1..Len(clean_ids) : clean_ids[j] = eos_id(v)[1]
    THEN Take(clean_ids, list_index(clean_ids, eos_id(v)[1]))
    ELSE clean_ids

\* Vocabulary.decode.
decode(v, ids) == _decode(v, decode_eos(v, decode_unk(v, ids)))

(* ------------------- Vocabulary.encode_tf / decode_tf ----------------- *)

\* The addition of two uint8 tensors: 8-bit unsigned, wrapping.
Uint8Add(a, b) == (a + b) % 256

\* ByteVocabulary._encode_tf: tf.io.decode_raw(s, tf.uint8) is the bytes of
\* s as a uint8 tensor; the sum with the Python int is a uint8 sum; the
\* cast to int32 keeps each value.
_encode_tf(v, s) ==
    [j \in 1..Len(s) |-> Uint8Add(s[j], v.num_special_tokens)]

\* Vocabulary.encode_tf.
encode_tf(v, s) == _encode_tf(v, s)

\* A Python str as a tf.string tensor (tf.constant, and the Tout=tf.string
\* result of tf.py_function): its UTF-8 bytes.
TfString(s) == Utf8Encode(s)

\* Vocabulary.decode_tf, first step: tf.where(tf.less(ids, base), ids, unk).
decode_tf_unk(v, ids) ==
    IF unk_id(v) # <<>>
    THEN [j \in 1..Len(ids) |->
             IF ids[j] < _base_vocab_size(v) THEN ids[j] ELSE unk_id(v)[1]]
    ELSE ids

RECURSIVE FirstTrue(_)
\* The 0-based index of the first TRUE of a boolean sequence holding one.
FirstTrue(b) == IF Head(b) THEN 0 ELSE 1 + FirstTrue(Tail(b))

\* tf.argmax of a 1-D boolean tensor: the index of the first largest
\* element (the first TRUE, or 0 when all are FALSE); an empty reduction
\* axis raises InvalidArgumentError.
TfArgmax(b) ==
    IF Len(b) = 0 THEN Raise("InvalidArgumentError")
    ELSE IF \E j \in 1..Len(b) : b[j] THEN Ok(FirstTrue(b))
    ELSE Ok(0)

\* A faulty variant of decode_tf_eos: the argmax is taken as the first
\* eos_id even when nothing matched.
decode_tf_eos_naive(v, valid_ids) ==
    IF eos_id(v) # <<>>
    THEN LET first_eos ==
                 TfArgmax([j \in 1..Len(valid_ids) |-> valid_ids[j] = eos_id(v)[1]])
         IN IF first_eos.err # "" THEN first_eos
            ELSE Ok(Take(valid_ids, first_eos.val))
    ELSE Ok(valid_ids)

\* Vocabulary.decode_tf, second step: cut before the first eos_id, unless
\* the argmax is 0 and element 0 is not eos_id.
decode_tf_eos(v, valid_ids) ==
    IF eos_id(v) # <<>>
    THEN LET first_eos ==
                 TfArgmax([j \in 1..Len(valid_ids) |-> valid_ids[j] = eos_id(v)[1]])
         IN IF first_eos.err # "" THEN first_eos
            ELSE IF first_eos.val = 0 /\ valid_ids[1] # eos_id(v)[1]
                 THEN Ok(valid_ids)
                 ELSE Ok(Take(valid_ids, first_eos.val))
    ELSE Ok(valid_ids)

\* ByteVocabulary._decode_tf: tf.py_function runs the scalar decode on the
\* tensor and returns its str as a tf.string scalar.
_decode_tf(v, ids) ==
    LET s == decode(v, ids)
    IN IF s.err # "" THEN s ELSE TfString(s.val)

\* Vocabulary.decode_tf.
decode_tf(v, ids) ==
    LET valid_ids == decode_tf_eos(v, decode_tf_unk(v, ids))
    IN IF valid_ids.err # "" THEN valid_ids ELSE _decode_tf(v, valid_ids.val)

\* A faulty variant of __eq__: an ordering test in place of equality.
__eq__at_most(v, other) ==
    LET their_extra_ids == extra_ids(other)
    IN extra_ids(v) <= their_extra_ids

\* ByteVocabulary.__eq__.
__eq__(v, other) ==
    LET their_extra_ids == extra_ids(other)
    IN extra_ids(v) = their_extra_ids

(* ------------------------------ the inputs ---------------------------- *)

\* Code points a str is drawn from: the ends of the 1-, 2-, 3- and 4-byte
\* UTF-8 ranges, the last scalar value below the surrogate block, and one
\* lone surrogate (U+D800), which is no valid UTF-8 text.
CodePoints ==
    {0, 127, 128, 2047, 2048, 55295, 55296, 65535, 65536, 1114111}

\* Ids an id sequence is drawn from: a negative id, pad, eos, unk, the
\* first byte id (byte 0), the id of "A", the last byte id (byte 255, no
\* valid UTF-8), the first id past the base vocabulary, and 300.
SampleIds == {-1, 0, 1, 2, 3, 68, 258, 259, 300}

\* Byte values a raw tf.string is drawn from.
SampleBytes == {0, 65, 128, 194, 252, 253, 254, 255}

Inputs ==
    {[kind |-> "str", val |-> s] : s \in SeqsUpTo(CodePoints, MaxStrLen)}
    \cup {[kind |-> "ids", val |-> s] : s \in SeqsUpTo(SampleIds, MaxIdLen)}
    \cup {[kind |-> "bytes", val |-> s] : s \in SeqsUpTo(SampleBytes, MaxBytesLen)}

(* ------------------------------ the state ----------------------------- *)

VARIABLES
    vocab,           \* the instance: its attributes
    ctor_extra_ids,  \* the extra_ids argument the instance was constructed with
    input,           \* what the caller holds to start with: a str, a raw
                     \* tf.string, or a sequence of ids
    held,            \* the ids the caller holds: the input ids, or the result
                     \* of the last successful encode / encode_tf
    call             \* the last call: its argument, the intermediate values
                     \* of the method, and what it returned or raised

vars == <<vocab, ctor_extra_ids, input, held, call>>

NoCall ==
    [op |-> "none", arg |-> <<>>, unk |-> <<>>, handed |-> <<>>,
     bytes |-> <<>>, err |-> "", result |-> <<>>, other |-> <<>>,
     equal |-> FALSE]

InitCaller ==
    /\ input \in Inputs
    /\ held = IF input.kind = "ids"
              THEN [src |-> "input", ids |-> input.val]
              ELSE [src |-> "none", ids |-> <<>>]
    /\ call = NoCall

\* ByteVocabulary(extra_ids=k).
Init ==
    /\ ctor_extra_ids \in 0..MaxExtraIds
    /\ vocab = NewByteVocabulary(ctor_extra_ids)
    /\ InitCaller

\* A concrete Vocabulary with the byte codec whose constructor passes any
\* use_eos and use_unk, and the default extra_ids, to Vocabulary.__init__.
InitVocabulary ==
    /\ ctor_extra_ids = 0
    /\ \E e \in BOOLEAN, u \in BOOLEAN :
           vocab = NewVocabulary(ctor_extra_ids, e, u)
    /\ InitCaller

(* ----------------------------- the calls ------------------------------ *)

\* vocab.encode(s) on the str held.
Encode ==
    /\ input.kind = "str"
    /\ LET r == encode(vocab, input.val)
       IN /\ call' = [NoCall EXCEPT !.op = "encode", !.arg = input.val,
                                    !.err = r.err, !.result = r.val]
          /\ held' = IF r.err = "" THEN [src |-> "encode", ids |-> r.val]
                     ELSE held
    /\ UNCHANGED <<vocab, ctor_extra_ids, input>>

\* vocab.encode_tf(s) on the tf.string held (a str is first made one).
EncodeTf ==
    /\ input.kind \in {"str", "bytes"}
    /\ LET s == IF input.kind = "str" THEN TfString(input.val) ELSE Ok(input.val)
           r == IF s.err # "" THEN s ELSE Ok(encode_tf(vocab, s.val))
       IN /\ call' = [NoCall EXCEPT !.op = "encode_tf", !.arg = s.val,
                                    !.err = r.err, !.result = r.val]
          /\ held' = IF r.err = "" THEN [src |-> "encode_tf", ids |-> r.val]
                     ELSE held
    /\ UNCHANGED <<vocab, ctor_extra_ids, input>>

\* vocab.decode(ids) on the ids held.
Decode ==
    /\ held.src # "none"
    /\ LET clean == decode_unk(vocab, held.ids)
           cut == decode_eos(vocab, clean)
           r == decode(vocab, held.ids)
       IN call' = [NoCall EXCEPT !.op = "decode", !.arg = held.ids,
                                 !.unk = clean, !.handed = cut,
                                 !.bytes = _decode_bytes(vocab, cut),
                                 !.err = r.err, !.result = r.val]
    /\ UNCHANGED <<vocab, ctor_extra_ids, input, held>>

\* vocab.decode_tf(ids) on the ids held.
DecodeTf ==
    /\ held.src # "none"
    /\ LET valid == decode_tf_unk(vocab, held.ids)
           cut == decode_tf_eos(vocab, valid)
           r == decode_tf(vocab, held.ids)
       IN call' = [NoCall EXCEPT !.op = "decode_tf", !.arg = held.ids,
                                 !.unk = valid, !.handed = cut.val,
                                 !.err = r.err, !.result = r.val]
    /\ UNCHANGED <<vocab, ctor_extra_ids, input, held>>

\* vocab == other, for another ByteVocabulary.
Eq ==
    /\ \E k \in 0..MaxExtraIds :
         LET other == NewByteVocabulary(k)
         IN call' = [NoCall EXCEPT !.op = "eq", !.other = <<other>>,
                                   !.equal = __eq__(vocab, other)]
    /\ UNCHANGED <<vocab, ctor_extra_ids, input, held>>

Next == Encode \/ EncodeTf \/ Decode \/ DecodeTf \/ Eq

Spec == Init /\ [][Next]_vars

SpecVocabulary == InitVocabulary /\ [][Next]_vars

(* ------------------------------ properties ---------------------------- *)

\* What the last call returned or raised, as the methods return it.
Returned == [err |-> call.err, val |-> call.result]

NoSurrogate(s) == \A j \in 1..Len(s) : ~IsSurrogate(s[j])

\* An id that stands for a byte: 3..258.
IsByteId(i) == 3 <= i /\ i <= 258

\* C1: ByteVocabulary round trip.  encode of a str of valid text (no lone
\* surrogate) returns, and decode of the ids encode returned gives back the
\* str: the unknown substitution and the EOS truncation leave the ids as
\* encode produced them and the range filter drops none of them.
C1_RoundTrip ==
    /\ (call.op = "encode" /\ NoSurrogate(call.arg)) => call.err = ""
    /\ (call.op = "decode" /\ held.src = "encode" /\ NoSurrogate(input.val)) =>
          /\ call.err = ""
          /\ call.result = input.val
          /\ call.unk = held.ids
          /\ call.handed = held.ids
          /\ Len(call.bytes) = Len(held.ids)

\* C1 happens: a str of a 4-byte and a 2-byte character went through
\* encode and then decode.
C1_Witness ==
    /\ call.op = "decode"
    /\ held.src = "encode"
    /\ input.val = <<1114111, 128>>
    /\ Len(held.ids) = 6
    /\ call.result = input.val

\* C2: batched/scalar decode equivalence.  decode_tf of any id sequence
\* (the empty one included) returns, as a tf.string, the str that decode
\* returns for the same ids.
C2_BatchedScalarEquivalence ==
    call.op = "decode_tf" =>
        LET d == decode(vocab, call.arg)
        IN /\ call.err = ""
           /\ d.err = ""
           /\ Returned = TfString(d.val)

\* C3: special-id exclusion in both encoders.  encode and encode_tf emit
\* one id per input byte b, equal to b + 3, in 3..258, never 0, 1 or 2.
C3_SpecialIdExclusion ==
    (call.op \in {"encode", "encode_tf"} /\ call.err = "") =>
        LET b == IF call.op = "encode" THEN Utf8Encode(call.arg).val
                 ELSE call.arg
        IN /\ Len(call.result) = Len(b)
           /\ \A j \in 1..Len(b) :
                 /\ call.result[j] = b[j] + 3
                 /\ IsByteId(call.result[j])
                 /\ call.result[j] \notin {0, 1, 2}

\* C4: truncation law of Vocabulary.decode.  With eos_id defined and in
\* the sequence, the primitive decoder is handed the ids strictly before
\* the first eos_id, so decode(p ++ [1] ++ t) = decode(p) for p without
\* EOS; without an EOS in the sequence, or with use_eos false, nothing is
\* cut.
C4_TruncationLaw ==
    call.op = "decode" =>
        LET a == call.arg
            FirstEos(k) == a[k] = 1 /\ \A j \in 1..(k - 1) : a[j] # 1
        IN /\ \A k \in 1..Len(a) :
                 (vocab.use_eos /\ FirstEos(k)) =>
                     /\ call.handed = SubSeq(call.unk, 1, k - 1)
                     /\ Returned = decode(vocab, SubSeq(a, 1, k - 1))
           /\ (~vocab.use_eos \/ \A j \in 1..Len(a) : a[j] # 1) =>
                 call.handed = call.unk

\* C4 happens: decode of [68, 1, 68] handed [68] to the primitive decoder
\* and returned "A".
C4_Witness ==
    /\ call.op = "decode"
    /\ vocab.use_eos
    /\ call.arg = <<68, 1, 68>>
    /\ call.handed = <<68>>
    /\ call.result = <<65>>

\* C5: zero-occurrence EOS edge case of decode_tf.  For a non-empty id
\* sequence without eos_id the truncation step leaves the (substituted)
\* sequence as it is, in length and in content, and that is what the
\* primitive batched decoder is handed; when element 0 is eos_id the
\* sequence is cut to the empty sequence.
C5_NoEosNoTruncation ==
    (call.op = "decode_tf" /\ call.arg # <<>>) =>
        LET a == call.arg
        IN /\ (\A j \in 1..Len(a) : a[j] # 1) =>
                 /\ call.err = ""
                 /\ call.handed = call.unk
                 /\ Len(call.handed) = Len(a)
                 /\ \A j \in 1..Len(a) :
                       call.handed[j] = IF a[j] >= 259 THEN 2 ELSE a[j]
           /\ a[1] = 1 =>
                 /\ call.err = ""
                 /\ call.handed = <<>>

\* C5 happens: decode_tf of [68, 258, 3], which holds no EOS and does not
\* start with one, handed all three ids on.
C5_Witness ==
    /\ call.op = "decode_tf"
    /\ call.arg = <<68, 258, 3>>
    /\ call.handed = <<68, 258, 3>>
    /\ call.err = ""

\* C6: decode is total.  ByteVocabulary.decode of any id sequence returns
\* a str and raises nothing; the bytes handed to the UTF-8 conversion are
\* the byte ids 3..258 of the cut sequence less 3, each in 0..255, so an id
\* outside 3..258 gives no byte; ids that are all out of range decode to
\* the empty str.
C6_DecodeTotal ==
    call.op = "decode" =>
        LET kept == SelectSeq(call.handed, IsByteId)
        IN /\ call.err = ""
           /\ Len(call.bytes) = Len(kept)
           /\ \A j \in 1..Len(kept) :
                 /\ call.bytes[j] = kept[j] - 3
                 /\ call.bytes[j] \in 0..255
           /\ (\A j \in 1..Len(call.arg) : ~IsByteId(call.arg[j])) =>
                 call.result = <<>>

\* C6 happens: decode([300]) with extra_ids = 0 returned the empty str.
C6_Witness ==
    /\ call.op = "decode"
    /\ vocab.extra_ids = 0
    /\ call.arg = <<300>>
    /\ call.err = ""
    /\ call.result = <<>>

C8_SizeAndImmutability ==
    /\ [](/\ extra_ids(vocab) = ctor_extra_ids
          /\ _base_vocab_size(vocab) = 259
          /\ vocab_size(vocab) = 259 + ctor_extra_ids
          /\ pad_id(vocab) = 0
          /\ eos_id(vocab) = <<1>>
          /\ unk_id(vocab) = <<2>>)
    /\ [][vocab' = vocab]_vars

\* C8 happens: an instance built with extra_ids = 1 has gone through
\* encode_tf and then decode_tf, and its vocab_size is 260.
C8_Witness ==
    /\ ctor_extra_ids = 1
    /\ held.src = "encode_tf"
    /\ call.op = "decode_tf"
    /\ vocab_size(vocab) = 260

\* C9: ByteVocabulary equality.  a == b exactly when a.extra_ids =
\* b.extra_ids; so a == a, and b == a gives what a == b gave.
C9_Equality ==
    call.op = "eq" =>
        LET other == call.other[1]
        IN /\ call.equal <=> (vocab.extra_ids = other.extra_ids)
           /\ call.equal <=> __eq__(other, vocab)
           /\ other = vocab => call.equal

\* C9 happens: ByteVocabulary(1) == ByteVocabulary(0) was evaluated and
\* gave False.
C9_Witness ==
    /\ call.op = "eq"
    /\ vocab.extra_ids = 1
    /\ call.other[1].extra_ids = 0
    /\ ~call.equal

\* C10: idempotence of the decode cleaning.  Cleaning (unknown
\* substitution, then truncation before the first EOS) the ids decode has
\* cleaned gives them back unchanged; and decode_tf, which cleans the ids
\* and has the scalar decode clean them again, returns for every id
\* sequence the str that one cleaning followed by the primitive _decode
\* gives.
C10_CleaningIdempotent ==
    /\ call.op = "decode" =>
          decode_eos(vocab, decode_unk(vocab, call.handed)) = call.handed
    /\ call.op = "decode_tf" =>
          LET once == decode_eos(vocab, decode_unk(vocab, call.arg))
              d == _decode(vocab, once)
          IN /\ call.err = ""
             /\ d.err = ""
             /\ Returned = TfString(d.val)

====
